---- MODULE Spec2Model ----
(***************************************************************************)
(* Message-driven document pipeline of chat-port-docxtract.                *)
(*                                                                         *)
(* Two threads are modelled:                                               *)
(*   - the main thread of src/main.py (connect, subscribe, the listen loop *)
(*     of ArtemisConnector.start_listening with _attempt_reconnect, and    *)
(*     the final disconnect), at the position mainPc;                      *)
(*   - the stomp receiver side, which runs the listener callbacks          *)
(*     (on_message with main.handler inside it, on_disconnected), at the   *)
(*     position dpc.                                                       *)
(* The broker, the transport, and the five stage collaborators (SFTP,      *)
(* converter, splitter, vectorizer, Elasticsearch) are the environment:    *)
(* their outcomes are chosen nondeterministically.                         *)
(***************************************************************************)
EXTENDS Integers, Sequences, FiniteSets, TLC

\* ------------------------------------------------------------------ bounds
MaxK == 2            \* max_reconnect_attempts is drawn from 0..MaxK
MaxDeliveries == 2   \* frames the broker delivers in one behaviour
MaxFrags == 2        \* fragments the Chunk stage may return
MaxConnects == 2     \* connect() calls a client makes in SpecApi
MaxClock == 1        \* seconds time.time() advances in SpecApi

\* --------------------------------------------------------------- constants
Handler == "handler"                                \* main.handler
SubId == "tps-gestor-documental-movimientos"        \* id main subscribes with
QueueName == "test"                                 \* ARTEMIS_QUEUE default
SubscribeArity == 2      \* positional parameters of subscribe_to_queue
None == "None"

Docs == {"doc1.pdf", "doc2.pdf"}
MsgIds == {"ID:1"}
Kinds == {"work", "nodata", "noarchivo", "nonjson"}
ChunkIds == 0..(MaxFrags - 1)
EmptyMap == [x \in {} |-> x]

VARIABLES
    \* ArtemisConnector fields
    connection,              \* id of the stomp.Connection object, 0 = None
    connected,
    running,
    reconnect_attempts,
    max_reconnect_attempts,
    subscriptions,           \* id -> [queue, handler]
    message_handlers,        \* id -> handler
    \* transport / broker (environment)
    transportUp,             \* socket of the current connection object is up
    notifyPending,           \* on_disconnected not yet delivered
    brokerSubs,              \* ids subscribed at the broker on this connection
    \* main thread
    mainPc,
    loopExit,                \* why the listen loop ended
    resync,                  \* outcome of the re-subscription after reconnect
    reconnectCalls,          \* connect calls made by _attempt_reconnect
    consecFailed,            \* consecutive failed connect calls of those
    mainError,               \* the call of main whose failure ended main
    lastCall,                \* last call a client made on the connector's API
    \* receiver thread: dispatch of one frame
    dpc,
    frame,
    deliveries,
    handlerCalls,            \* handler invocations for the current frame
    ackLog,                  \* ack/nack calls made for the current frame
    errorPath,               \* handler entered its except clause
    escaped,                 \* an exception left on_message
    \* DocumentProcessor of the current run
    document_uuid,
    texto,
    fragments,
    idx,
    stageLog,                \* stage calls of the current run
    sftpOpen,                \* SFTP session of the run is still connected
    \* Elasticsearch index
    esIndex,
    overwrote                \* a write has replaced a record of its own key

connVars == <<connection, connected, running, reconnect_attempts,
              max_reconnect_attempts, subscriptions, message_handlers,
              transportUp, notifyPending, brokerSubs>>
mainVars == <<mainPc, loopExit, resync, reconnectCalls, consecFailed,
              mainError, lastCall>>
dispVars == <<dpc, frame, deliveries, handlerCalls, ackLog, errorPath, escaped>>
procVars == <<document_uuid, texto, fragments, idx, stageLog, sftpOpen>>
esVars == <<esIndex, overwrote>>
vars == <<connVars, mainVars, dispVars, procVars, esVars>>

NoCall == [op |-> None, id |-> None, known |-> FALSE, raised |-> FALSE, t |-> 0]
NoFrame == [mid |-> None, sub |-> None, kind |-> None, doc |-> None, conn |-> 0]

Init ==
    /\ connection = 0
    /\ connected = FALSE
    /\ running = FALSE
    /\ reconnect_attempts = 0
    /\ max_reconnect_attempts \in 0..MaxK
    /\ subscriptions = EmptyMap
    /\ message_handlers = EmptyMap
    /\ transportUp = FALSE
    /\ notifyPending = FALSE
    /\ brokerSubs = {}
    /\ mainPc = "m_connect"
    /\ loopExit = "none"
    /\ resync = "none"
    /\ reconnectCalls = 0
    /\ consecFailed = 0
    /\ mainError = None
    /\ lastCall = NoCall
    /\ dpc = "idle"
    /\ frame = NoFrame
    /\ deliveries = 0
    /\ handlerCalls = 0
    /\ ackLog = <<>>
    /\ errorPath = FALSE
    /\ escaped = FALSE
    /\ document_uuid = None
    /\ texto = None
    /\ fragments = <<>>
    /\ idx = 0
    /\ stageLog = <<>>
    /\ sftpOpen = FALSE
    /\ esIndex = {}
    /\ overwrote = FALSE

\* ------------------------------------------------------- registry helpers
Put(f, k, v) == [x \in DOMAIN f \cup {k} |-> IF x = k THEN v ELSE f[x]]
Drop(f, ks) == [x \in DOMAIN f \ ks |-> f[x]]

\* Variant: a successful connect keeps the attempt counter.
Connect_KeepAttempts(ok) ==
    /\ connection' = connection + 1
    /\ transportUp' = ok
    /\ notifyPending' = FALSE
    /\ connected' = ok
    /\ reconnect_attempts' = reconnect_attempts

\* ArtemisConnector.connect: a new stomp.Connection replaces the old one,
\* then the handshake succeeds (ok) or raises and is caught.
Connect(ok) ==
    /\ connection' = connection + 1
    /\ transportUp' = ok
    /\ notifyPending' = FALSE
    /\ connected' = ok
    /\ reconnect_attempts' = IF ok THEN 0 ELSE reconnect_attempts

\* Variant: the handler is registered before the connection is checked.
SubscribeBody_RegisterFirst(st, isConnected, up, message_handler, subscription_id) ==
    IF ~isConnected \/ ~up
    THEN [st EXCEPT !.handlers = Put(@, subscription_id, message_handler),
                    !.raised = TRUE]
    ELSE [st EXCEPT !.handlers = Put(@, subscription_id, message_handler),
                    !.bsubs = @ \cup {subscription_id},
                    !.subs = Put(@, subscription_id,
                                 [queue |-> QueueName,
                                  handler |-> message_handler])]

\* Body of subscribe_to_queue(message_handler, subscription_id) on a registry
\* st = [handlers, subs, bsubs]; up says whether connection.subscribe works.
SubscribeBody(st, isConnected, up, message_handler, subscription_id) ==
    IF ~isConnected
    THEN [st EXCEPT !.raised = TRUE]
    ELSE IF ~up
         THEN [st EXCEPT !.handlers = Put(@, subscription_id, message_handler),
                         !.raised = TRUE]
         ELSE [st EXCEPT !.handlers = Put(@, subscription_id, message_handler),
                         !.bsubs = @ \cup {subscription_id},
                         !.subs = Put(@, subscription_id,
                                      [queue |-> QueueName,
                                       handler |-> message_handler])]

\* A call of subscribe_to_queue with positional arguments args: more than
\* SubscribeArity arguments is a TypeError raised before the body runs.
SubscribeCall(st, isConnected, up, args) ==
    IF Len(args) > SubscribeArity
    THEN [st EXCEPT !.raised = TRUE]
    ELSE SubscribeBody(st, isConnected, up, args[1],
                       IF Len(args) >= 2 THEN args[2] ELSE None)

\* Variant: the call leaves the queue in the handler's position.
ResubscribeArgs_QueueAsHandler(sub_id, sub_info) == <<sub_info.queue, sub_id>>

\* The argument list _attempt_reconnect passes for one registry entry.
ResubscribeArgs(sub_id, sub_info) == <<sub_info.queue, sub_info.handler, sub_id>>

\* The re-subscription loop of _attempt_reconnect over a snapshot of the
\* registry; it stops at the first call that raises.
RECURSIVE ResyncLoop(_, _, _, _)
ResyncLoop(ids, snapshot, st, up) ==
    IF ids = {} \/ st.raised
    THEN st
    ELSE LET id == CHOOSE x \in ids : TRUE
         IN ResyncLoop(ids \ {id}, snapshot,
                       SubscribeCall(st, TRUE, up, ResubscribeArgs(id, snapshot[id])),
                       up)

Registry == [handlers |-> message_handlers, subs |-> subscriptions,
             bsubs |-> brokerSubs, raised |-> FALSE]

\* ------------------------------------------------------------ main thread
\* main.py:238  artemis_connector.connect()
MainConnect ==
    /\ mainPc = "m_connect"
    /\ \E ok \in BOOLEAN :
         /\ Connect(ok)
         /\ brokerSubs' = {}
         /\ mainPc' = IF ok THEN "m_subscribe" ELSE "m_done"
         /\ mainError' = IF ok THEN mainError ELSE "connect"
    /\ UNCHANGED <<running, max_reconnect_attempts, subscriptions, message_handlers>>
    /\ UNCHANGED <<loopExit, resync, reconnectCalls, consecFailed, lastCall>>
    /\ UNCHANGED <<dispVars, procVars, esVars>>

\* main.py:241  subscribe_to_queue(message_handler=handler, subscription_id=...)
MainSubscribe ==
    /\ mainPc = "m_subscribe"
    /\ LET r == SubscribeBody(Registry, connected, transportUp, Handler, SubId)
       IN /\ message_handlers' = r.handlers
          /\ subscriptions' = r.subs
          /\ brokerSubs' = r.bsubs
          /\ mainPc' = IF r.raised THEN "m_done" ELSE "l_start"
          /\ mainError' = IF r.raised THEN "subscribe" ELSE mainError
    /\ UNCHANGED <<connection, connected, running, reconnect_attempts,
                   max_reconnect_attempts, transportUp, notifyPending>>
    /\ UNCHANGED <<loopExit, resync, reconnectCalls, consecFailed, lastCall>>
    /\ UNCHANGED <<dispVars, procVars, esVars>>

\* start_listening: self.running = True
ListenStart ==
    /\ mainPc = "l_start"
    /\ running' = TRUE
    /\ mainPc' = "l_while"
    /\ UNCHANGED <<connection, connected, reconnect_attempts,
                   max_reconnect_attempts, subscriptions, message_handlers,
                   transportUp, notifyPending, brokerSubs>>
    /\ UNCHANGED <<loopExit, resync, reconnectCalls, consecFailed, mainError, lastCall>>
    /\ UNCHANGED <<dispVars, procVars, esVars>>

\* start_listening: while self.running and self.connected
ListenWhile ==
    /\ mainPc = "l_while"
    /\ IF running /\ connected
       THEN mainPc' = "l_sleep" /\ UNCHANGED loopExit
       ELSE mainPc' = "l_finally" /\ loopExit' = "condition"
    /\ UNCHANGED <<resync, reconnectCalls, consecFailed, mainError, lastCall>>
    /\ UNCHANGED <<connVars, dispVars, procVars, esVars>>

\* Variant: a lost connection starts a reconnect whatever the running flag.
ListenSleep_IgnoreFlag ==
    /\ mainPc = "l_sleep"
    /\ mainPc' = IF ~connected THEN "r_guard" ELSE "l_while"
    /\ UNCHANGED <<loopExit, resync, reconnectCalls, consecFailed, mainError, lastCall>>
    /\ UNCHANGED <<connVars, dispVars, procVars, esVars>>

\* start_listening: time.sleep(1), then the test that guards _attempt_reconnect
ListenSleep ==
    /\ mainPc = "l_sleep"
    /\ mainPc' = IF ~connected /\ running THEN "r_guard" ELSE "l_while"
    /\ UNCHANGED <<loopExit, resync, reconnectCalls, consecFailed, mainError, lastCall>>
    /\ UNCHANGED <<connVars, dispVars, procVars, esVars>>

\* start_listening: KeyboardInterrupt while the loop sleeps
ListenInterrupt ==
    /\ mainPc \in {"l_sleep", "r_connect"}
    /\ mainPc' = "l_finally"
    /\ loopExit' = "interrupt"
    /\ UNCHANGED <<resync, reconnectCalls, consecFailed, mainError, lastCall>>
    /\ UNCHANGED <<connVars, dispVars, procVars, esVars>>

\* Variant: the counter is incremented without the test against the bound.
AttemptReconnect_NoBound ==
    /\ mainPc = "r_guard"
    /\ mainPc' = "r_connect"
    /\ reconnect_attempts' = reconnect_attempts + 1
    /\ UNCHANGED <<connection, connected, running, max_reconnect_attempts,
                   subscriptions, message_handlers, transportUp, notifyPending,
                   brokerSubs>>
    /\ UNCHANGED <<loopExit, resync, reconnectCalls, consecFailed, mainError, lastCall>>
    /\ UNCHANGED <<dispVars, procVars, esVars>>

\* _attempt_reconnect: the bound on the counter, then the increment
AttemptReconnect ==
    /\ mainPc = "r_guard"
    /\ IF reconnect_attempts >= max_reconnect_attempts
       THEN mainPc' = "l_while" /\ UNCHANGED reconnect_attempts
       ELSE mainPc' = "r_connect" /\ reconnect_attempts' = reconnect_attempts + 1
    /\ UNCHANGED <<connection, connected, running, max_reconnect_attempts,
                   subscriptions, message_handlers, transportUp, notifyPending,
                   brokerSubs>>
    /\ UNCHANGED <<loopExit, resync, reconnectCalls, consecFailed, mainError, lastCall>>
    /\ UNCHANGED <<dispVars, procVars, esVars>>

\* _attempt_reconnect after the delay: connect, and on success the
\* re-subscription of every registry entry
ReconnectConnect ==
    /\ mainPc = "r_connect"
    /\ reconnectCalls' = reconnectCalls + 1
    /\ \E ok \in BOOLEAN :
         /\ Connect(ok)
         /\ consecFailed' = IF ok THEN 0 ELSE consecFailed + 1
         /\ IF ok
            THEN LET r == ResyncLoop(DOMAIN subscriptions, subscriptions,
                                     [Registry EXCEPT !.bsubs = {}], TRUE)
                 IN /\ message_handlers' = r.handlers
                    /\ subscriptions' = r.subs
                    /\ brokerSubs' = r.bsubs
                    /\ resync' = IF r.raised THEN "error" ELSE "ok"
                    /\ loopExit' = IF r.raised THEN "error" ELSE loopExit
                    /\ mainPc' = IF r.raised THEN "l_finally" ELSE "l_while"
            ELSE /\ brokerSubs' = {}
                 /\ mainPc' = "l_while"
                 /\ UNCHANGED <<message_handlers, subscriptions, resync, loopExit>>
    /\ UNCHANGED <<running, max_reconnect_attempts, mainError, lastCall>>
    /\ UNCHANGED <<dispVars, procVars, esVars>>

\* start_listening: finally: self.running = False
ListenFinally ==
    /\ mainPc = "l_finally"
    /\ running' = FALSE
    /\ mainPc' = "m_disconnect"
    /\ UNCHANGED <<connection, connected, reconnect_attempts,
                   max_reconnect_attempts, subscriptions, message_handlers,
                   transportUp, notifyPending, brokerSubs>>
    /\ UNCHANGED <<loopExit, resync, reconnectCalls, consecFailed, mainError, lastCall>>
    /\ UNCHANGED <<dispVars, procVars, esVars>>

\* disconnect(): the guard and the unsubscribe of every registry entry;
\* unsubscribe raises when connection.unsubscribe does, and disconnect's
\* except clause swallows it
DisconnectUnsubscribe ==
    /\ mainPc = "m_disconnect"
    /\ IF connection # 0 /\ connected
       THEN /\ running' = FALSE
            /\ IF transportUp \/ DOMAIN subscriptions = {}
               THEN /\ subscriptions' = EmptyMap
                    /\ message_handlers' = Drop(message_handlers, DOMAIN subscriptions)
                    /\ brokerSubs' = brokerSubs \ DOMAIN subscriptions
                    /\ mainPc' = "m_close"
               ELSE /\ mainPc' = "m_done"
                    /\ UNCHANGED <<subscriptions, message_handlers, brokerSubs>>
       ELSE /\ mainPc' = "m_done"
            /\ UNCHANGED <<running, subscriptions, message_handlers, brokerSubs>>
    /\ UNCHANGED <<connection, connected, reconnect_attempts,
                   max_reconnect_attempts, transportUp, notifyPending>>
    /\ UNCHANGED <<loopExit, resync, reconnectCalls, consecFailed, mainError, lastCall>>
    /\ UNCHANGED <<dispVars, procVars, esVars>>

\* disconnect(): self.connection.disconnect(); self.connected = False
DisconnectClose ==
    /\ mainPc = "m_close"
    /\ IF transportUp
       THEN /\ transportUp' = FALSE
            /\ connected' = FALSE
            /\ brokerSubs' = {}
       ELSE UNCHANGED <<transportUp, connected, brokerSubs>>
    /\ mainPc' = "m_done"
    /\ UNCHANGED <<connection, running, reconnect_attempts,
                   max_reconnect_attempts, subscriptions, message_handlers,
                   notifyPending>>
    /\ UNCHANGED <<loopExit, resync, reconnectCalls, consecFailed, mainError, lastCall>>
    /\ UNCHANGED <<dispVars, procVars, esVars>>

\* ------------------------------------------- transport and listener events
\* the socket of the current connection is lost
TransportDrop ==
    /\ mainPc # "m_done"
    /\ transportUp
    /\ transportUp' = FALSE
    /\ notifyPending' = TRUE
    /\ brokerSubs' = {}
    /\ UNCHANGED <<connection, connected, running, reconnect_attempts,
                   max_reconnect_attempts, subscriptions, message_handlers>>
    /\ UNCHANGED <<mainVars, dispVars, procVars, esVars>>

\* ArtemisMessageListener.on_disconnected
OnDisconnected ==
    /\ mainPc # "m_done"
    /\ notifyPending
    /\ notifyPending' = FALSE
    /\ connected' = FALSE
    /\ UNCHANGED <<connection, running, reconnect_attempts,
                   max_reconnect_attempts, subscriptions, message_handlers,
                   transportUp, brokerSubs>>
    /\ UNCHANGED <<mainVars, dispVars, procVars, esVars>>

MainNext ==
    \/ MainConnect
    \/ MainSubscribe
    \/ ListenStart
    \/ ListenWhile
    \/ ListenSleep
    \/ ListenInterrupt
    \/ AttemptReconnect
    \/ ReconnectConnect
    \/ ListenFinally
    \/ DisconnectUnsubscribe
    \/ DisconnectClose

\* ------------------------------------------------ receiver thread: frames
\* the broker delivers a MESSAGE frame for one of its subscriptions
DeliverOf(kinds) ==
    /\ mainPc # "m_done"
    /\ dpc \in {"idle", "d_done"}
    /\ deliveries < MaxDeliveries
    /\ transportUp
    /\ \E sub \in brokerSubs, mid \in MsgIds, kind \in kinds, doc \in Docs :
         frame' = [mid |-> mid, sub |-> sub, kind |-> kind,
                   doc |-> IF kind = "work" THEN doc ELSE None,
                   conn |-> connection]
    /\ deliveries' = deliveries + 1
    /\ dpc' = "d_recv"
    /\ handlerCalls' = 0
    /\ ackLog' = <<>>
    /\ errorPath' = FALSE
    /\ escaped' = FALSE
    /\ stageLog' = <<>>
    /\ UNCHANGED <<document_uuid, texto, fragments, idx, sftpOpen>>
    /\ UNCHANGED <<connVars, mainVars, esVars>>

\* the broker delivers a frame of any of the body kinds
Deliver == DeliverOf(Kinds)

\* Variant: a frame without a handler is nacked.
OnMessageLookup_NackOrphan ==
    /\ mainPc # "m_done"
    /\ dpc = "d_recv"
    /\ IF frame.sub \in DOMAIN message_handlers
       THEN dpc' = "h_decode" /\ handlerCalls' = handlerCalls + 1
       ELSE dpc' = "d_nack" /\ UNCHANGED handlerCalls
    /\ UNCHANGED <<frame, deliveries, ackLog, errorPath, escaped>>
    /\ UNCHANGED <<connVars, mainVars, procVars, esVars>>

\* on_message: look the handler up by the frame's subscription header;
\* without a handler the frame is dropped
OnMessageLookup ==
    /\ mainPc # "m_done"
    /\ dpc = "d_recv"
    /\ IF frame.sub \in DOMAIN message_handlers
       THEN dpc' = "h_decode" /\ handlerCalls' = handlerCalls + 1
       ELSE dpc' = "d_done" /\ UNCHANGED handlerCalls
    /\ UNCHANGED <<frame, deliveries, ackLog, errorPath, escaped>>
    /\ UNCHANGED <<connVars, mainVars, procVars, esVars>>

\* ---------------------------------------------------------- main.handler
\* Every raise inside the handler is caught by its own
\* "except Exception" (main.py:235), so the handler returns normally and
\* the dispatcher goes on to the ack.
Stage(name, ok, chunk) == [stage |-> name, ok |-> ok, chunk |-> chunk]

\* connector.py:282-286  json.loads(frame.body) with the raw_body fallback.
\* The body is given by the frame's kind: not JSON, JSON without 'datos',
\* JSON whose first 'datos' entry has no 'archivo', or a full work item.
MessageData(f) ==
    CASE f.kind = "nonjson" -> [raw_body |-> f.kind]
      [] f.kind = "nodata" -> [datos |-> <<>>]
      [] f.kind = "noarchivo" -> [datos |-> <<[archivo |-> None]>>]
      [] OTHER -> [datos |-> <<[archivo |-> f.doc]>>]

\* main.py:192  message.get('data', {}).get('datos', [])
Datos(data) == IF "datos" \in DOMAIN data THEN data.datos ELSE <<>>

\* Variant: one DocumentProcessor serves every message; only the fields
\* taken from the message are assigned.
HandlerDecode_SharedProcessor ==
    /\ mainPc # "m_done"
    /\ dpc = "h_decode"
    /\ LET datos_array == Datos(MessageData(frame))
       IN IF datos_array = <<>>
          THEN /\ errorPath' = TRUE
               /\ dpc' = "d_ack"
               /\ UNCHANGED <<document_uuid, texto, fragments, idx, sftpOpen>>
          ELSE LET data == datos_array[1]
               IN /\ document_uuid' = data.archivo
                  /\ idx' = 0
                  /\ sftpOpen' = FALSE
                  /\ errorPath' = (data.archivo = None)
                  /\ dpc' = IF data.archivo = None THEN "d_ack" ELSE "h_fetch"
                  /\ UNCHANGED <<texto, fragments>>
    /\ UNCHANGED <<frame, deliveries, handlerCalls, ackLog, escaped, stageLog>>
    /\ UNCHANGED <<connVars, mainVars, esVars>>

\* main.py:192-209  decode the work item, build the DocumentProcessor
HandlerDecode ==
    /\ mainPc # "m_done"
    /\ dpc = "h_decode"
    /\ LET datos_array == Datos(MessageData(frame))
       IN IF datos_array = <<>>
          THEN /\ errorPath' = TRUE
               /\ dpc' = "d_ack"
               /\ UNCHANGED <<document_uuid, texto, fragments, idx, sftpOpen>>
          ELSE LET data == datos_array[1]
               IN /\ document_uuid' = data.archivo
                  /\ texto' = None
                  /\ fragments' = <<>>
                  /\ idx' = 0
                  /\ sftpOpen' = FALSE
                  /\ errorPath' = (data.archivo = None)
                  /\ dpc' = IF data.archivo = None THEN "d_ack" ELSE "h_fetch"
    /\ UNCHANGED <<frame, deliveries, handlerCalls, ackLog, escaped, stageLog>>
    /\ UNCHANGED <<connVars, mainVars, esVars>>

\* Variant: the error of a failed download leaves the handler and the
\* dispatch call uncaught.
HandlerFetch_Uncaught ==
    /\ mainPc # "m_done"
    /\ dpc = "h_fetch"
    /\ \E outcome \in {"ok", "connect_fail", "download_fail"} :
         /\ stageLog' = Append(stageLog, Stage("fetch", outcome = "ok", 0))
         /\ sftpOpen' = (outcome = "download_fail")
         /\ errorPath' = FALSE
         /\ escaped' = (outcome # "ok")
         /\ dpc' = IF outcome = "ok" THEN "h_extract" ELSE "d_done"
    /\ UNCHANGED <<frame, deliveries, handlerCalls, ackLog>>
    /\ UNCHANGED <<document_uuid, texto, fragments, idx>>
    /\ UNCHANGED <<connVars, mainVars, esVars>>

\* main.py:211  DocumentProcessor.download_file
HandlerFetch ==
    /\ mainPc # "m_done"
    /\ dpc = "h_fetch"
    /\ \E outcome \in {"ok", "connect_fail", "download_fail"} :
         /\ stageLog' = Append(stageLog, Stage("fetch", outcome = "ok", 0))
         /\ sftpOpen' = (outcome = "download_fail")
         /\ errorPath' = (outcome # "ok")
         /\ dpc' = IF outcome = "ok" THEN "h_extract" ELSE "d_ack"
    /\ UNCHANGED <<frame, deliveries, handlerCalls, ackLog, escaped>>
    /\ UNCHANGED <<document_uuid, texto, fragments, idx>>
    /\ UNCHANGED <<connVars, mainVars, esVars>>

\* Variant: the handler goes on to Chunk whatever Extract returned.
HandlerExtract_GoOn ==
    /\ mainPc # "m_done"
    /\ dpc = "h_extract"
    /\ \E outcome \in {"raise", "falsy", "notext", "text"} :
         /\ stageLog' = Append(stageLog,
                               Stage("extract", outcome \in {"notext", "text"}, 0))
         /\ texto' = IF outcome \in {"raise", "falsy"} THEN "notext" ELSE outcome
         /\ errorPath' = FALSE
         /\ dpc' = "h_chunk"
    /\ UNCHANGED <<frame, deliveries, handlerCalls, ackLog, escaped>>
    /\ UNCHANGED <<document_uuid, fragments, idx, sftpOpen>>
    /\ UNCHANGED <<connVars, mainVars, esVars>>

\* main.py:215  DocumentProcessor.extraer_documento
HandlerExtract ==
    /\ mainPc # "m_done"
    /\ dpc = "h_extract"
    /\ \E outcome \in {"raise", "falsy", "notext", "text"} :
         /\ stageLog' = Append(stageLog,
                               Stage("extract", outcome \in {"notext", "text"}, 0))
         /\ texto' = IF outcome \in {"raise", "falsy"} THEN None ELSE outcome
         /\ errorPath' = (outcome \in {"raise", "falsy"})
         /\ dpc' = IF outcome \in {"raise", "falsy"} THEN "d_ack" ELSE "h_chunk"
    /\ UNCHANGED <<frame, deliveries, handlerCalls, ackLog, escaped>>
    /\ UNCHANGED <<document_uuid, fragments, idx, sftpOpen>>
    /\ UNCHANGED <<connVars, mainVars, esVars>>

\* Variant: the splitter's fragments carry no fragment_index.
CreateFragment_NoInfo(index, total_chunks) == [fragment_id |-> index]

\* TextSplitter._create_fragment: fragment_index is part of the fragment
\* because the metadata option include_fragment_info defaults to True
CreateFragment(index, total_chunks) ==
    [fragment_id |-> index, fragment_index |-> index, total_fragments |-> total_chunks]

\* TextSplitter.split_text: the loop over enumerate(chunks)
SplitText(n) == [i \in 1..n |-> CreateFragment(i - 1, n)]

\* DocumentProcessor._formato_fragmento: chunk_index is
\* fragment.get('fragment_index', 0)
FormatoFragmento(doc, fragment) ==
    [doc_id |-> doc,
     chunk_index |-> IF "fragment_index" \in DOMAIN fragment
                     THEN fragment.fragment_index ELSE 0,
     content_vector |-> FALSE]

\* DocumentProcessor.split_text: _formato_fragmento over the splitter's list
FormatFragments(doc, n) ==
    [i \in 1..n |-> FormatoFragmento(doc, SplitText(n)[i])]

\* main.py:219  DocumentProcessor.split_text
HandlerChunk ==
    /\ mainPc # "m_done"
    /\ dpc = "h_chunk"
    /\ \E n \in 0..MaxFrags, raises \in BOOLEAN :
         LET failed == texto = "notext" \/ raises \/ n = 0
         IN /\ stageLog' = Append(stageLog, Stage("chunk", ~failed, 0))
            /\ fragments' = IF texto = "notext" \/ raises
                            THEN fragments
                            ELSE FormatFragments(document_uuid, n)
            /\ errorPath' = failed
            /\ dpc' = IF failed THEN "d_ack" ELSE "h_embed"
    /\ UNCHANGED <<frame, deliveries, handlerCalls, ackLog, escaped>>
    /\ UNCHANGED <<document_uuid, texto, idx, sftpOpen>>
    /\ UNCHANGED <<connVars, mainVars, esVars>>

\* Variant: the fragments are indexed although an embedding failed.
HandlerEmbed_IndexPartial ==
    /\ mainPc # "m_done"
    /\ dpc = "h_embed"
    /\ \E failAt \in 0..Len(fragments) :
         /\ stageLog' = Append(stageLog, Stage("embed", failAt = 0, 0))
         /\ fragments' = [i \in 1..Len(fragments) |->
                            IF failAt = 0 \/ i < failAt
                            THEN [fragments[i] EXCEPT !.content_vector = TRUE]
                            ELSE fragments[i]]
         /\ errorPath' = FALSE
         /\ idx' = 1
         /\ dpc' = "h_index"
    /\ UNCHANGED <<frame, deliveries, handlerCalls, ackLog, escaped>>
    /\ UNCHANGED <<document_uuid, texto, sftpOpen>>
    /\ UNCHANGED <<connVars, mainVars, esVars>>

\* main.py:223  DocumentProcessor.vectorize_fragments; failAt = 0 means no
\* vectorize_text call raised, otherwise the call for fragment failAt did
HandlerEmbed ==
    /\ mainPc # "m_done"
    /\ dpc = "h_embed"
    /\ \E failAt \in 0..Len(fragments) :
         /\ stageLog' = Append(stageLog, Stage("embed", failAt = 0, 0))
         /\ fragments' = [i \in 1..Len(fragments) |->
                            IF failAt = 0 \/ i < failAt
                            THEN [fragments[i] EXCEPT !.content_vector = TRUE]
                            ELSE fragments[i]]
         /\ errorPath' = (failAt # 0)
         /\ idx' = 1
         /\ dpc' = IF failAt = 0 THEN "h_index" ELSE "d_ack"
    /\ UNCHANGED <<frame, deliveries, handlerCalls, ackLog, escaped>>
    /\ UNCHANGED <<document_uuid, texto, sftpOpen>>
    /\ UNCHANGED <<connVars, mainVars, esVars>>

\* The Elasticsearch _id save_document uses for a write
EsId(doc_id) == <<doc_id, 0>>

\* Variant: the record is indexed without an _id, so Elasticsearch assigns
\* a new one to every write.
SaveDocument_AutoId(index, document, doc_id, run, outcome) ==
    IF outcome = "ok"
    THEN index \cup {[id |-> <<"auto", Cardinality(index) + 1>>,
                      doc |-> document.doc_id,
                      chunk |-> document.chunk_index, run |-> run]}
    ELSE index

\* ElasticsearchConnector.save_document(document, doc_id), reached through
\* send_to_elasticsearch: delete the record with that _id, then index under
\* it.  outcome: "ok", "fail" (no connection, or the delete raised) or
\* "fail_deleted" (the delete went through, the index call raised).
SaveDocument(index, document, doc_id, run, outcome) ==
    LET others == {r \in index : r.id # EsId(doc_id)}
    IN CASE outcome = "ok" ->
              others \cup {[id |-> EsId(doc_id), doc |-> document.doc_id,
                            chunk |-> document.chunk_index, run |-> run]}
         [] outcome = "fail_deleted" -> others
         [] OTHER -> index

\* Variant: the loop ends at the first write that fails.
HandlerIndex_StopOnFailure ==
    /\ mainPc # "m_done"
    /\ dpc = "h_index"
    /\ idx <= Len(fragments)
    /\ \E outcome \in {"ok", "fail", "fail_deleted"} :
         /\ dpc' = IF outcome # "ok" THEN "d_ack"
                   ELSE IF idx = Len(fragments) THEN "h_keywords" ELSE "h_index"
         /\ esIndex' = SaveDocument(esIndex, fragments[idx], document_uuid,
                                    deliveries, outcome)
         /\ stageLog' = Append(stageLog,
                               Stage("index", outcome = "ok", fragments[idx].chunk_index))
         /\ overwrote' = (overwrote \/
                              (outcome = "ok" /\
                               \E r \in esIndex :
                                  /\ r.doc = document_uuid
                                  /\ r.chunk = fragments[idx].chunk_index))
    /\ idx' = idx + 1
    /\ UNCHANGED <<frame, deliveries, handlerCalls, ackLog, errorPath, escaped>>
    /\ UNCHANGED <<document_uuid, texto, fragments, sftpOpen>>
    /\ UNCHANGED <<connVars, mainVars>>

\* main.py:228-230  one iteration of the loop over processor.fragments; the
\* result of send_to_elasticsearch is not looked at
HandlerIndex ==
    /\ mainPc # "m_done"
    /\ dpc = "h_index"
    /\ idx <= Len(fragments)
    /\ \E outcome \in {"ok", "fail", "fail_deleted"} :
         /\ esIndex' = SaveDocument(esIndex, fragments[idx], document_uuid,
                                    deliveries, outcome)
         /\ stageLog' = Append(stageLog,
                               Stage("index", outcome = "ok", fragments[idx].chunk_index))
         /\ overwrote' = (overwrote \/
                              (outcome = "ok" /\
                               \E r \in esIndex :
                                  /\ r.doc = document_uuid
                                  /\ r.chunk = fragments[idx].chunk_index))
    /\ idx' = idx + 1
    /\ dpc' = IF idx = Len(fragments) THEN "h_keywords" ELSE "h_index"
    /\ UNCHANGED <<frame, deliveries, handlerCalls, ackLog, errorPath, escaped>>
    /\ UNCHANGED <<document_uuid, texto, fragments, sftpOpen>>
    /\ UNCHANGED <<connVars, mainVars>>

\* DocumentProcessor defines no send_to_elasticsearch_keywords method
HasKeywordsMethod == FALSE

\* main.py:233  processor.send_to_elasticsearch_keywords()
HandlerKeywords ==
    /\ mainPc # "m_done"
    /\ dpc = "h_keywords"
    /\ errorPath' = ~HasKeywordsMethod
    /\ dpc' = "d_ack"
    /\ UNCHANGED <<frame, deliveries, handlerCalls, ackLog, escaped>>
    /\ UNCHANGED <<connVars, mainVars, procVars, esVars>>

\* ------------------------------------------------- on_message: ack / nack
\* Variant: the call carries no subscription id.
AckCall_NoSubscription(op, ok) == [op |-> op, mid |-> frame.mid, sub |-> None,
                                   conn |-> connection, ok |-> ok]

\* artemis/connector.py:307,313  the arguments of connection.ack / nack
AckCall(op, ok) == [op |-> op, mid |-> frame.mid, sub |-> frame.sub,
                    conn |-> connection, ok |-> ok]

\* artemis/connector.py:307  connection.ack after the handler returned;
\* the call raises when the transport is down
DispatchAck ==
    /\ mainPc # "m_done"
    /\ dpc = "d_ack"
    /\ ackLog' = Append(ackLog, AckCall("ack", transportUp))
    /\ dpc' = IF transportUp THEN "d_done" ELSE "d_nack"
    /\ UNCHANGED <<frame, deliveries, handlerCalls, errorPath, escaped>>
    /\ UNCHANGED <<connVars, mainVars, procVars, esVars>>

\* Variant: the ack is repeated after the nack of the except clause.
DispatchNack_AckAfter ==
    /\ mainPc # "m_done"
    /\ dpc = "d_nack"
    /\ ackLog' = ackLog \o <<AckCall("nack", transportUp), AckCall("ack", transportUp)>>
    /\ escaped' = ~transportUp
    /\ dpc' = "d_done"
    /\ UNCHANGED <<frame, deliveries, handlerCalls, errorPath>>
    /\ UNCHANGED <<connVars, mainVars, procVars, esVars>>

\* artemis/connector.py:310-319  the except clause: connection.nack; when
\* that raises too, on_message raises RuntimeError
DispatchNack ==
    /\ mainPc # "m_done"
    /\ dpc = "d_nack"
    /\ ackLog' = Append(ackLog, AckCall("nack", transportUp))
    /\ escaped' = ~transportUp
    /\ dpc' = "d_done"
    /\ UNCHANGED <<frame, deliveries, handlerCalls, errorPath>>
    /\ UNCHANGED <<connVars, mainVars, procVars, esVars>>

ReceiverNext ==
    \/ Deliver
    \/ OnMessageLookup
    \/ HandlerDecode
    \/ HandlerFetch
    \/ HandlerExtract
    \/ HandlerChunk
    \/ HandlerEmbed
    \/ HandlerIndex
    \/ HandlerKeywords
    \/ DispatchAck
    \/ DispatchNack

Next ==
    \/ MainNext
    \/ TransportDrop
    \/ OnDisconnected
    \/ ReceiverNext

Spec == Init /\ [][Next]_vars

\* ------------------------------------------- the connector's public methods
\* A client thread calls connect, subscribe_to_queue, unsubscribe and
\* disconnect in any order while the receiver thread dispatches frames.
OtherId == "sub_test_0"
ApiIds == {SubId, OtherId}
OtherHandler == "other_handler"
ApiHandlers == {Handler, OtherHandler}

\* connector.py:149  the identifier generated at second t when none is given
DefaultId(t) == "sub_" \o QueueName \o "_" \o ToString(t)

InitApi ==
    /\ connection = 0
    /\ connected = FALSE
    /\ running = FALSE
    /\ reconnect_attempts = 0
    /\ max_reconnect_attempts = MaxK
    /\ subscriptions = EmptyMap
    /\ message_handlers = EmptyMap
    /\ transportUp = FALSE
    /\ notifyPending = FALSE
    /\ brokerSubs = {}
    /\ mainPc = "api"
    /\ loopExit = "none"
    /\ resync = "none"
    /\ reconnectCalls = 0
    /\ consecFailed = 0
    /\ mainError = None
    /\ lastCall = NoCall
    /\ dpc = "idle"
    /\ frame = NoFrame
    /\ deliveries = 0
    /\ handlerCalls = 0
    /\ ackLog = <<>>
    /\ errorPath = FALSE
    /\ escaped = FALSE
    /\ document_uuid = None
    /\ texto = None
    /\ fragments = <<>>
    /\ idx = 0
    /\ stageLog = <<>>
    /\ sftpOpen = FALSE
    /\ esIndex = {}
    /\ overwrote = FALSE

\* a call and its outcome; t is the second time.time() last returned
Call(op, id, known, raised) ==
    [op |-> op, id |-> id, known |-> known, raised |-> raised, t |-> lastCall.t]

\* Variant: the subscription is removed but its handler stays registered.
UnsubscribeBody_KeepHandler(st, up, subscription_id) ==
    IF subscription_id \in DOMAIN st.subs
    THEN IF up
         THEN [st EXCEPT !.subs = Drop(@, {subscription_id}),
                         !.bsubs = @ \ {subscription_id}]
         ELSE [st EXCEPT !.raised = TRUE]
    ELSE st

\* Variant: the entries are deleted before the broker call, so a failed
\* call leaves the registry without them.
UnsubscribeBody_DropFirst(st, up, subscription_id) ==
    IF subscription_id \in DOMAIN st.subs
    THEN [st EXCEPT !.subs = Drop(@, {subscription_id}),
                    !.handlers = Drop(@, {subscription_id}),
                    !.bsubs = IF up THEN @ \ {subscription_id} ELSE @,
                    !.raised = ~up]
    ELSE st

\* Body of unsubscribe(subscription_id) on a registry st; an identifier that
\* is not in self.subscriptions skips the whole body.
UnsubscribeBody(st, up, subscription_id) ==
    IF subscription_id \in DOMAIN st.subs
    THEN IF up
         THEN [st EXCEPT !.subs = Drop(@, {subscription_id}),
                         !.handlers = Drop(@, {subscription_id}),
                         !.bsubs = @ \ {subscription_id}]
         ELSE [st EXCEPT !.raised = TRUE]
    ELSE st

\* disconnect(): the loop over list(self.subscriptions.keys()); it ends at
\* the first unsubscribe that raises.
RECURSIVE UnsubscribeAll(_, _, _)
UnsubscribeAll(ids, st, up) ==
    IF ids = {} \/ st.raised
    THEN st
    ELSE LET id == CHOOSE x \in ids : TRUE
         IN UnsubscribeAll(ids \ {id}, UnsubscribeBody(st, up, id), up)

\* connect(), called by a client that is not connected
ApiConnect ==
    /\ mainPc = "api"
    /\ ~connected
    /\ connection < MaxConnects
    /\ \E ok \in BOOLEAN :
         /\ Connect(ok)
         /\ lastCall' = Call("connect", None, FALSE, FALSE)
    /\ brokerSubs' = {}
    /\ UNCHANGED <<running, max_reconnect_attempts, subscriptions, message_handlers>>
    /\ UNCHANGED <<mainPc, loopExit, resync, reconnectCalls, consecFailed, mainError>>
    /\ UNCHANGED <<dispVars, procVars, esVars>>

\* subscribe_to_queue(handler, subscription_id) with the handler drawn from
\* handlers and the identifier from args; for None it is generated from the
\* current second t: the second of the previous call or the next one
SubscribeWith(args, handlers) ==
    /\ mainPc = "api"
    /\ \E arg \in args, h \in handlers, t \in {lastCall.t, lastCall.t + 1} :
         /\ t <= MaxClock
         /\ arg # None => t = lastCall.t
         /\ LET id == IF arg = None THEN DefaultId(t) ELSE arg
                r == SubscribeBody(Registry, connected, transportUp, h, id)
            IN /\ message_handlers' = r.handlers
               /\ subscriptions' = r.subs
               /\ brokerSubs' = r.bsubs
               /\ lastCall' = [op |-> IF arg = None THEN "subscribe_noid" ELSE "subscribe",
                               id |-> id, known |-> id \in DOMAIN subscriptions,
                               raised |-> r.raised, t |-> t]
    /\ UNCHANGED <<connection, connected, running, reconnect_attempts,
                   max_reconnect_attempts, transportUp, notifyPending>>
    /\ UNCHANGED <<mainPc, loopExit, resync, reconnectCalls, consecFailed, mainError>>
    /\ UNCHANGED <<dispVars, procVars, esVars>>

\* a client subscribes main's handler under an identifier of its own
ApiSubscribe == SubscribeWith(ApiIds, {Handler})

\* a client subscribes any handler, with or without an identifier
ApiSubscribeAny == SubscribeWith(ApiIds \cup {None}, ApiHandlers)

\* unsubscribe(subscription_id)
ApiUnsubscribe ==
    /\ mainPc = "api"
    /\ \E id \in ApiIds :
         LET r == UnsubscribeBody(Registry, transportUp, id)
         IN /\ message_handlers' = r.handlers
            /\ subscriptions' = r.subs
            /\ brokerSubs' = r.bsubs
            /\ lastCall' = Call("unsubscribe", id, id \in DOMAIN subscriptions, r.raised)
    /\ UNCHANGED <<connection, connected, running, reconnect_attempts,
                   max_reconnect_attempts, transportUp, notifyPending>>
    /\ UNCHANGED <<mainPc, loopExit, resync, reconnectCalls, consecFailed, mainError>>
    /\ UNCHANGED <<dispVars, procVars, esVars>>

\* disconnect(): the whole call; an exception of an unsubscribe or of
\* connection.disconnect() ends the try block and is swallowed
DisconnectCall ==
    /\ IF connection # 0 /\ connected
       THEN LET r == UnsubscribeAll(DOMAIN subscriptions, Registry, transportUp)
                closed == ~r.raised /\ transportUp
            IN /\ running' = FALSE
               /\ message_handlers' = r.handlers
               /\ subscriptions' = r.subs
               /\ brokerSubs' = IF closed THEN {} ELSE r.bsubs
               /\ transportUp' = IF closed THEN FALSE ELSE transportUp
               /\ connected' = IF closed THEN FALSE ELSE connected
       ELSE UNCHANGED <<running, message_handlers, subscriptions, brokerSubs,
                        transportUp, connected>>
    /\ lastCall' = Call("disconnect", None, FALSE, FALSE)
    /\ UNCHANGED <<connection, reconnect_attempts, max_reconnect_attempts, notifyPending>>
    /\ UNCHANGED <<mainPc, loopExit, resync, reconnectCalls, consecFailed, mainError>>
    /\ UNCHANGED <<dispVars, procVars, esVars>>

\* disconnect(), called by a client
ApiDisconnect == mainPc = "api" /\ DisconnectCall

\* the broker delivers a frame whose body carries no work item, so that the
\* handler returns right after decoding it
ApiKinds == {"nodata"}
ApiDeliver == DeliverOf(ApiKinds)

ApiNext ==
    \/ ApiConnect
    \/ ApiSubscribe
    \/ ApiUnsubscribe
    \/ ApiDisconnect

NextApi ==
    \/ ApiNext
    \/ TransportDrop
    \/ OnDisconnected
    \/ ApiDeliver
    \/ OnMessageLookup
    \/ HandlerDecode
    \/ DispatchAck
    \/ DispatchNack

SpecApi == InitApi /\ [][NextApi]_vars

\* the registry under subscribe calls of every form, without frames
NextSub ==
    \/ ApiConnect
    \/ ApiSubscribeAny
    \/ ApiUnsubscribe
    \/ ApiDisconnect
    \/ TransportDrop
    \/ OnDisconnected

SpecSub == InitApi /\ [][NextSub]_vars

\* ------------------------------------- disconnect() during start_listening
\* Another thread of the process calls disconnect(), the one method that
\* clears the running flag, while the main thread is inside start_listening.
ListenPcs == {"l_start", "l_while", "l_sleep", "r_guard", "r_connect"}

StopDisconnect == mainPc \in ListenPcs /\ DisconnectCall

NextStop ==
    \/ MainNext
    \/ TransportDrop
    \/ OnDisconnected
    \/ StopDisconnect

SpecStop == Init /\ [][NextStop]_vars

\* ================================================================= claims
\* the dispatch of the current frame has finished
Done == dpc = "d_done"
AckCalls(op) == {i \in DOMAIN ackLog : ackLog[i].op = op}
Acked == \E i \in AckCalls("ack") : ackLog[i].ok
StageOk(name) == \E i \in DOMAIN stageLog : stageLog[i].stage = name /\ stageLog[i].ok
StageFailed == \E i \in DOMAIN stageLog : ~stageLog[i].ok
IndexWrites == {i \in DOMAIN stageLog : stageLog[i].stage = "index"}
\* the run of the current frame had a document reference and all of Fetch,
\* Extract, Chunk, Embed and every fragment's Index write succeeded
AllStagesOk ==
    /\ frame.kind = "work"
    /\ StageOk("fetch") /\ StageOk("extract") /\ StageOk("chunk") /\ StageOk("embed")
    /\ Cardinality(IndexWrites) = Len(fragments)
    /\ \A i \in IndexWrites : stageLog[i].ok
RecordsOf(d, c) == {r \in esIndex : r.doc = d /\ r.chunk = c}

\* C1: an ack is sent for a delivered message only if its pipeline run
\* completed successfully (document reference present and all five stages,
\* every Index write included, succeeded).
C1_AckOnlyOnSuccess == Acked => AllStagesOk

\* C2: when any stage of a run reported an error, the verdict is failure and
\* exactly one nack and no ack is issued for the message.
C2_StageErrorNackedOnce ==
    (Done /\ StageFailed) =>
        /\ errorPath
        /\ Cardinality(AckCalls("nack")) = 1
        /\ AckCalls("ack") = {}

\* C3: when all five stages of a well-formed work item succeeded, the handler
\* finishes without entering its error path and exactly one ack and no nack
\* is issued.
C3_SuccessAckedOnce ==
    (Done /\ AllStagesOk) =>
        /\ ~errorPath
        /\ Len(ackLog) = 1
        /\ ackLog[1].op = "ack"

\* C4: after a successful run with N fragments the index holds N records of
\* the document, one per chunk index.
C4_OneRecordPerFragment ==
    (Done /\ AllStagesOk) =>
        /\ Cardinality({r \in esIndex : r.doc = document_uuid}) = Len(fragments)
        /\ \A i \in DOMAIN fragments :
             RecordsOf(document_uuid, fragments[i].chunk_index) # {}

\* C5: within one dispatch no ack call follows a nack call for the message.
C5_NoAckAfterNack ==
    \A i, j \in DOMAIN ackLog :
        (i < j /\ ackLog[i].op = "nack") => ackLog[j].op # "ack"

\* a dispatch in which the nack was called (the ack had raised)
C5_Witness == Done /\ AckCalls("nack") # {} /\ AckCalls("ack") # {}

\* C6: reconnect_attempts never exceeds max_reconnect_attempts, and once
\* max_reconnect_attempts consecutive connect calls of the supervisor have
\* failed it makes no further connect call.
C6_ReconnectBounded ==
    /\ [](reconnect_attempts <= max_reconnect_attempts)
    /\ [][consecFailed >= max_reconnect_attempts
            => reconnectCalls' = reconnectCalls]_vars

\* the counter stands at the bound after that many failed connect calls
C6_Witness ==
    /\ max_reconnect_attempts >= 1
    /\ reconnect_attempts = max_reconnect_attempts
    /\ consecFailed = max_reconnect_attempts
    /\ ~connected

\* C7: a failed reconnect attempt is followed by further attempts; the
\* listen loop does not end on a lost connection before the counter has
\* reached max_reconnect_attempts.
C7_LoopOutlivesFailedAttempt ==
    (loopExit = "condition" /\ consecFailed >= 1)
        => reconnect_attempts >= max_reconnect_attempts

\* the step of _attempt_reconnect in which connect succeeded
ReconnectSucceeded == mainPc = "r_connect" /\ mainPc' # "r_connect" /\ connected'

\* C8: a successful reconnect keeps every registry identifier, mapped to its
\* original handler.
C8_RegistrySurvivesReconnect ==
    [][ReconnectSucceeded =>
          \A id \in DOMAIN subscriptions :
              /\ id \in DOMAIN subscriptions'
              /\ id \in DOMAIN message_handlers'
              /\ subscriptions'[id].handler = subscriptions[id].handler
              /\ message_handlers'[id] = message_handlers[id]]_vars

\* right after a successful reconnect, with the registry entry of main in place
C8_Witness ==
    /\ resync # "none"
    /\ connected
    /\ mainPc \in {"l_while", "l_finally"}
    /\ SubId \in DOMAIN subscriptions
    /\ subscriptions[SubId].handler = Handler
    /\ message_handlers[SubId] = Handler

\* C9: after a successful reconnect with a non-empty registry a broker-level
\* subscribe is issued on the new connection for every registry entry, the
\* resync completes without error and the listen loop keeps running.
C9_ResyncCompletes ==
    [][(ReconnectSucceeded /\ DOMAIN subscriptions # {}) =>
          /\ DOMAIN subscriptions \subseteq brokerSubs'
          /\ resync' = "ok"
          /\ mainPc' = "l_while"]_vars

\* the step is a successful Index write of chunk c of document d
WroteOk(d, c) ==
    /\ dpc = "h_index"
    /\ document_uuid = d
    /\ Len(stageLog') = Len(stageLog) + 1
    /\ stageLog'[Len(stageLog')] = Stage("index", TRUE, c)

\* C10: a successful Index write for a document reference and chunk index
\* leaves exactly one record under that key, with the content of that write,
\* and no key ever has more than one record.
C10_IndexOverwrites ==
    /\ [](\A d \in Docs, c \in ChunkIds : Cardinality(RecordsOf(d, c)) <= 1)
    /\ [][\A d \in Docs, c \in ChunkIds :
            WroteOk(d, c) =>
                /\ Cardinality({r \in esIndex' : r.doc = d /\ r.chunk = c}) = 1
                /\ \A r \in esIndex' :
                     (r.doc = d /\ r.chunk = c) => r.run = deliveries]_vars

\* the second run has just overwritten a record of the first run
C10_Witness ==
    \E d \in Docs, c \in ChunkIds :
        /\ overwrote
        /\ dpc = "h_keywords"
        /\ stageLog[Len(stageLog)] = Stage("index", TRUE, c)
        /\ RecordsOf(d, c) = {[id |-> EsId(d), doc |-> d, chunk |-> c, run |-> 2]}

\* the step in which on_message looks up the handler of the frame
LookupStep == dpc = "d_recv" /\ dpc' # "d_recv"

\* C11: a frame whose subscription id has no registered handler invokes no
\* handler and gets neither ack nor nack.
C11_OrphanDropped ==
    /\ [][(LookupStep /\ frame.sub \notin DOMAIN message_handlers) =>
            /\ dpc' = "d_done"
            /\ handlerCalls' = 0
            /\ ackLog' = <<>>]_vars
    /\ [](handlerCalls = 0 => (ackLog = <<>> /\ stageLog = <<>> /\ ~errorPath))

\* a delivered frame was dropped: its handler was gone at the lookup
C11_Witness ==
    /\ Done
    /\ frame.sub = SubId
    /\ frame.sub \notin DOMAIN message_handlers
    /\ handlerCalls = 0
    /\ ackLog = <<>>

\* the run of the current frame failed in its Fetch stage
FetchFailed == \E i \in DOMAIN stageLog : stageLog[i].stage = "fetch" /\ ~stageLog[i].ok

\* C12: when the Fetch stage fails for a message, a nack is issued for it and
\* no Extract, Chunk, Embed or Index call is made.
C12_FetchFailureNacked ==
    (Done /\ FetchFailed) =>
        /\ AckCalls("nack") # {}
        /\ \A i \in DOMAIN stageLog : stageLog[i].stage = "fetch"

DisconnectReturned == mainPc = "m_done" /\ mainError = None

\* C14: disconnect() never raises and always leaves the connection state
\* Disconnected, also when the broker-level unsubscribe or the close fails.
C14_DisconnectLeavesDisconnected == DisconnectReturned => ~connected

\* a step in which connect() ran: it installs a new connection object
ConnectStep == connection' # connection

\* C15: a successful connect leaves the state Connected with
\* reconnect_attempts = 0; a failed connect leaves it Disconnected and
\* returns a failure result (no exception reaches the caller's handlers).
C15_ConnectOutcome ==
    [][ConnectStep =>
         /\ transportUp' => (connected' /\ reconnect_attempts' = 0)
         /\ ~transportUp' =>
               /\ ~connected'
               /\ loopExit' = loopExit
               /\ mainPc = "m_connect" => mainError' = "connect"
               /\ mainPc = "r_connect" => mainPc' = "l_while"]_vars

\* a reconnect succeeded after a counted attempt and the counter is 0 again
C15_Witness ==
    /\ reconnectCalls >= 1
    /\ connection >= 2
    /\ connected /\ transportUp
    /\ reconnect_attempts = 0

\* an ack or nack call of the current frame failed on a lost connection
AckFailed == \E i \in DOMAIN ackLog : ~ackLog[i].ok

\* C16: an ack or nack attempted while the connection is not Connected is
\* absorbed: no exception escapes the dispatch, there is no retry and no
\* other acknowledgment primitive is issued for the message.
C16_AckFailureAbsorbed == AckFailed => (~escaped /\ Len(ackLog) = 1)

\* the step in which main calls subscribe_to_queue
SubscribeStep == mainPc = "m_subscribe" /\ mainPc' # "m_subscribe"

\* C17: subscribe called while not Connected fails with an error, issues no
\* broker-level subscribe and leaves handler map and subscription map unchanged.
C17_SubscribeNeedsConnection ==
    [][(SubscribeStep /\ ~connected) =>
         /\ mainPc' = "m_done" /\ mainError' = "subscribe"
         /\ UNCHANGED <<subscriptions, message_handlers, brokerSubs>>]_vars

\* main ended in its subscribe call, made on a lost connection
C17_Witness ==
    /\ mainPc = "m_done" /\ mainError = "subscribe"
    /\ ~connected
    /\ message_handlers = EmptyMap
    /\ subscriptions = EmptyMap

\* the last call of the client was unsubscribe(id) and it returned normally
Unsubscribed(id) == lastCall.op = "unsubscribe" /\ lastCall.id = id /\ ~lastCall.raised

\* C18: unsubscribe called with an identifier that is not in the registry
\* fails with an error instead of returning normally.
C18_UnknownIdRejected ==
    (lastCall.op = "unsubscribe" /\ ~lastCall.known) => lastCall.raised

C20_ConnectionStateMachine ==
    /\ [][(~connected /\ connected') => (ConnectStep /\ transportUp')]_vars
    /\ [][(connected /\ ~connected') =>
            \/ ConnectStep /\ ~transportUp'
            \/ notifyPending /\ ~notifyPending' /\ ~transportUp
            \/ mainPc = "m_close"]_vars
    /\ [](connected => ((transportUp \/ notifyPending) /\ ~DisconnectReturned))

\* a step in which a stage of the current run reported a failure
StageFailureStep ==
    /\ Len(stageLog') = Len(stageLog) + 1
    /\ ~stageLog'[Len(stageLog')].ok

\* C21: a stage failure never leaves the handler or the dispatch call as an
\* uncaught exception: the handler goes on to its verdict (or, for an Index
\* write, to the next write), the listen loop's state is untouched, and
\* once the dispatch is done the next frame can be delivered.
C21_StageFailureContained ==
    /\ [][StageFailureStep =>
            /\ ~escaped'
            /\ IF stageLog'[Len(stageLog')].stage = "index"
               THEN dpc' \in {"h_index", "h_keywords"}
               ELSE dpc' \in {"d_ack", "d_nack"}
            /\ UNCHANGED <<running, mainPc, loopExit, mainError>>]_vars
    /\ [](escaped => AckFailed)
    /\ []((Done /\ StageFailed /\ mainPc # "m_done" /\ transportUp
             /\ brokerSubs # {} /\ deliveries < MaxDeliveries) => ENABLED Deliver)

\* a run with a failed stage was dispatched to its end while the listen loop
\* is running, and the broker can deliver the next frame
C21_Witness ==
    /\ Done /\ StageFailed /\ ~escaped
    /\ ackLog # <<>>
    /\ running /\ mainPc \in {"l_while", "l_sleep"}
    /\ ENABLED Deliver

\* the listen loop is between two attempts, disconnected, with the attempt
\* counter at its bound
Exhausted ==
    /\ mainPc \in {"l_while", "l_sleep", "r_guard"}
    /\ ~connected
    /\ reconnect_attempts >= max_reconnect_attempts

\* main has ended after a listen loop that stopped with the counter at its bound
EndedExhausted ==
    /\ mainPc = "m_done" /\ loopExit = "condition"
    /\ ~connected
    /\ reconnect_attempts >= max_reconnect_attempts

\* C22: when the connection is Disconnected and reconnect_attempts has
\* reached max_reconnect_attempts, no further connect call is made, the
\* listen loop goes on only to its end (running = False), and the caller
\* gets a fatal outcome (an error of main) instead of a normal return.
C22_ExhaustionIsFatal ==
    /\ [][Exhausted =>
            /\ ~ConnectStep
            /\ mainPc' \in {mainPc, "r_guard", "l_while", "l_finally"}
            /\ mainPc = "l_while" => mainPc' \in {"l_while", "l_finally"}]_vars
    /\ [](EndedExhausted => ~running)
    /\ [](EndedExhausted => mainError # None)

\* the handler ran to its end for the current frame and the dispatch is done
Dispatched == Done /\ handlerCalls = 1

\* C23: a message with no work item or no 'archivo' is a processing error:
\* no stage is invoked and a nack, never an ack, is issued for it.
C23_MalformedNacked ==
    (Dispatched /\ frame.kind \in {"nodata", "noarchivo"}) =>
        /\ stageLog = <<>>
        /\ AckCalls("nack") # {}
        /\ AckCalls("ack") = {}

\* C24: for a body that is not valid JSON the registered handler is invoked
\* exactly once with data = {raw_body: body}, and the message then gets
\* exactly one ack or nack.
C24_NonJsonDispatched ==
    /\ [][(LookupStep /\ frame.kind = "nonjson"
             /\ frame.sub \in DOMAIN message_handlers) =>
            /\ dpc' = "h_decode" /\ handlerCalls' = 1
            /\ DOMAIN MessageData(frame') = {"raw_body"}]_vars
    /\ []((Dispatched /\ frame.kind = "nonjson") => Len(ackLog) = 1)

\* the Index writes of the current run that precede position i of the log
WritesBefore(i) == {j \in IndexWrites : j < i}

\* C25: the chunk_index values of the fragments handed to Embed and Index
\* are 0, 1, ..., N-1 in the order Chunk produced them, and the Index writes
\* are made in increasing chunk_index order without gap or repeat.
C25_ChunkIndexDense ==
    /\ \A i \in DOMAIN fragments : fragments[i].chunk_index = i - 1
    /\ \A i \in IndexWrites : stageLog[i].chunk = Cardinality(WritesBefore(i))

\* a run with several fragments wrote all of them
C25_Witness ==
    /\ Done
    /\ Len(fragments) >= 2
    /\ Cardinality(IndexWrites) = Len(fragments)

\* position of a stage in the order Fetch, Extract, Chunk, Embed, Index
Rank(name) ==
    CASE name = "fetch" -> 1
      [] name = "extract" -> 2
      [] name = "chunk" -> 3
      [] name = "embed" -> 4
      [] name = "index" -> 5

\* C26: within a run the stages are invoked in the order Fetch, Extract,
\* Chunk, Embed, Index, each only after every earlier stage succeeded, and
\* the ack or nack is issued only after the last invoked stage returned.
C26_StageOrder ==
    /\ stageLog # <<>> => stageLog[1].stage = "fetch"
    /\ \A i \in DOMAIN stageLog : i > 1 =>
          IF stageLog[i].stage = "index" /\ stageLog[i - 1].stage = "index"
          THEN TRUE
          ELSE /\ Rank(stageLog[i].stage) = Rank(stageLog[i - 1].stage) + 1
               /\ stageLog[i - 1].ok
    /\ ackLog # <<>> => dpc \in {"d_nack", "d_done"}

\* a run went through all five stages and was then acknowledged
C26_Witness ==
    /\ Done
    /\ ackLog # <<>>
    /\ {stageLog[i].stage : i \in DOMAIN stageLog} =
          {"fetch", "extract", "chunk", "embed", "index"}

\* an Index write of the current run failed
WriteFailed == \E i \in IndexWrites : ~stageLog[i].ok

\* C27: if any fragment's Index write fails, the run's verdict is failure
\* and the message is nacked, also when all other writes succeeded.
C27_WriteFailureNacked ==
    (Dispatched /\ WriteFailed) =>
        (AckCalls("nack") # {} /\ ~Acked)

\* the Index stage of the current run is over
IndexOver == StageOk("embed") /\ dpc \in {"h_keywords", "d_ack", "d_nack", "d_done"}

\* C28: in the Index stage a write is attempted for every fragment of the
\* run, also for those that follow a fragment whose write failed.
C28_EveryFragmentWritten ==
    IndexOver =>
        /\ Cardinality(IndexWrites) = Len(fragments)
        /\ {stageLog[i].chunk : i \in IndexWrites} =
              {fragments[k].chunk_index : k \in DOMAIN fragments}

\* the first write of a run failed and the second was still attempted
C28_Witness ==
    /\ IndexOver
    /\ Len(fragments) >= 2
    /\ \E i \in IndexWrites : ~stageLog[i].ok /\ i + 1 \in IndexWrites

\* the Embed stage of the current run failed
EmbedFailed == \E i \in DOMAIN stageLog : stageLog[i].stage = "embed" /\ ~stageLog[i].ok

\* C29: if embedding fails for any fragment of a run, no Index write is made
\* for any fragment of that run, and every fragment handed to Index carries
\* the vector Embed computed for it in that run.
C29_NoIndexWithoutVector ==
    /\ EmbedFailed => IndexWrites = {}
    /\ IndexWrites # {} =>
          \A k \in DOMAIN fragments : fragments[k].content_vector
    /\ dpc = "h_index" =>
          \A k \in DOMAIN fragments : fragments[k].content_vector

\* the embedding of a later fragment failed after an earlier one got its
\* vector, and the run ended without any Index write
C29_Witness ==
    /\ Done /\ EmbedFailed
    /\ \E k \in DOMAIN fragments : fragments[k].content_vector
    /\ \E k \in DOMAIN fragments : ~fragments[k].content_vector
    /\ IndexWrites = {}

\* C30: every ack or nack for a message is issued on the connection that
\* delivered it, also when a reconnect replaced the connection while the
\* message's run was in progress.
C30_AckOnDeliveringConnection ==
    \A i \in DOMAIN ackLog : ackLog[i].conn = frame.conn

\* on_message is in progress on the receiver thread
InFlight == dpc \notin {"idle", "d_done"}

\* a step of the main thread (connect, subscribe, listen loop, disconnect)
MainStep == mainPc' # mainPc

\* C31: while a dispatch started by the listener callback is in progress,
\* the listen-loop side (disconnect, unsubscribe, reconnect) modifies
\* neither the connection handle, nor the registry, nor the connected flag.
C31_NoInterleaving ==
    [][(InFlight /\ MainStep) =>
         UNCHANGED <<connection, connected, subscriptions, message_handlers>>]_vars

\* start_listening has returned
ListenReturned == mainPc \in {"m_disconnect", "m_close"} \/ DisconnectReturned

\* C32: once the running flag is False no reconnect attempt is started and
\* the loop leaves at its next test; start_listening always returns with
\* running = False.
C32_RunningFlagStopsLoop ==
    /\ [][(~running /\ mainPc \in ListenPcs \ {"l_start"}) =>
            /\ ~ConnectStep
            /\ reconnect_attempts' = reconnect_attempts
            /\ mainPc' \notin {"r_guard", "r_connect"}
            /\ mainPc = "l_while" => mainPc' \in {"l_while", "l_finally"}
            /\ mainPc = "l_sleep" => mainPc' \in {"l_sleep", "l_while", "l_finally"}]_vars
    /\ [](ListenReturned => ~running)

\* disconnect() cleared the flag during the loop and the loop left through
\* its test, without a reconnect, before the finally clause ran
C32_Witness ==
    /\ mainPc = "l_finally"
    /\ ~running
    /\ lastCall.op = "disconnect"
    /\ loopExit = "condition"
    /\ reconnectCalls = 0

\* the last call of the client was a subscribe that returned an identifier
Subscribed == lastCall.op \in {"subscribe", "subscribe_noid"} /\ ~lastCall.raised

\* C33: subscribe never replaces a live subscription: two calls without an
\* identifier get distinct identifiers, and a call with an identifier that
\* is in the registry leaves that entry and its handler as they were.
C33_SubscribeNeverReplaces ==
    /\ [][(lastCall' # lastCall /\ Subscribed /\ Subscribed'
             /\ lastCall.op = "subscribe_noid" /\ lastCall'.op = "subscribe_noid") =>
            lastCall'.id # lastCall.id]_vars
    /\ [][(lastCall' # lastCall /\ Subscribed' /\ lastCall'.known) =>
            /\ subscriptions'[lastCall'.id] = subscriptions[lastCall'.id]
            /\ lastCall'.id \in DOMAIN message_handlers =>
                  message_handlers'[lastCall'.id] = message_handlers[lastCall'.id]]_vars

\* C34: once start_listening has returned and disconnect() has run, the
\* registry is empty and the transport connection is closed, however the
\* listen loop ended.
C34_ShutdownReleases ==
    DisconnectReturned =>
        /\ subscriptions = EmptyMap
        /\ message_handlers = EmptyMap
        /\ ~transportUp

\* C35: the handler map and the subscription map of the registry hold the
\* same identifiers in every reachable state.
C35_RegistryMapsAgree == DOMAIN message_handlers = DOMAIN subscriptions

\* C36: the dispatcher calls at most one acknowledgment primitive for a
\* delivered message, ack or nack, never both.
C36_OneAckPrimitive ==
    /\ Len(ackLog) <= 1
    /\ AckCalls("ack") = {} \/ AckCalls("nack") = {}

\* the last call was unsubscribe(id) of a registered id and it raised
UnsubscribeFailed(id) ==
    lastCall.op = "unsubscribe" /\ lastCall.id = id /\ lastCall.known /\ lastCall.raised

\* C37: when the broker-level call of unsubscribe(id) fails, the call raises
\* and the registry is unchanged, with id in both maps, and a frame for id
\* is still handed to its handler.
C37_FailedUnsubscribeKeepsEntry ==
    /\ [][\A id \in ApiIds :
            (lastCall' # lastCall /\ lastCall'.op = "unsubscribe" /\ lastCall'.id = id
               /\ lastCall'.known /\ ~transportUp) =>
               /\ lastCall'.raised
               /\ subscriptions' = subscriptions
               /\ message_handlers' = message_handlers
               /\ id \in DOMAIN subscriptions'
               /\ id \in DOMAIN message_handlers']_vars
    /\ [](\A id \in ApiIds : UnsubscribeFailed(id) =>
            (id \in DOMAIN subscriptions /\ id \in DOMAIN message_handlers))
    /\ [][\A id \in ApiIds :
            (LookupStep /\ frame.sub = id /\ UnsubscribeFailed(id)) =>
               (dpc' = "h_decode" /\ handlerCalls' = 1)]_vars

\* a frame that was in flight for id reached its handler after unsubscribe(id)
\* had failed on the lost transport
C37_Witness ==
    /\ UnsubscribeFailed(frame.sub)
    /\ ~transportUp
    /\ dpc = "h_decode" /\ handlerCalls = 1
    /\ frame.sub \in DOMAIN subscriptions
    /\ frame.sub \in DOMAIN message_handlers

\* the handler is between its decode step and its return: the pipeline of
\* the current message is running on its DocumentProcessor
PipelinePcs == {"h_fetch", "h_extract", "h_chunk", "h_embed", "h_index", "h_keywords"}

\* C38: a pipeline run works on state made for its message only: the
\* processor and every fragment it indexes carry the document reference of
\* the message being handled (the metadata fields are assigned with it from
\* the same work item), and the run starts without text, fragments or
\* vectors of an earlier run.
C38_RunStateIsPerMessage ==
    /\ [](dpc \in PipelinePcs =>
            /\ document_uuid = frame.doc
            /\ \A i \in DOMAIN fragments : fragments[i].doc_id = frame.doc)
    /\ [](dpc \in {"h_fetch", "h_extract"} => (texto = None /\ fragments = <<>>))
    /\ [](dpc = "h_chunk" => fragments = <<>>)
    /\ [](dpc = "h_embed" => \A i \in DOMAIN fragments : ~fragments[i].content_vector)
    /\ [][(dpc = "h_index" /\ esIndex' # esIndex) =>
            \A r \in esIndex' \ esIndex : r.doc = frame.doc /\ r.run = deliveries]_vars

\* the second run indexed a fragment of its document while the record the
\* first run wrote for another document is in the index
C38_Witness ==
    /\ deliveries = 2
    /\ dpc = "h_keywords"
    /\ \E r \in esIndex : r.run = 2 /\ r.doc = frame.doc
    /\ \E r \in esIndex : r.run = 1 /\ r.doc # frame.doc

\* C39: once the Fetch stage of a run has returned, with success or failure,
\* the SFTP session it opened is closed, and no session is connected when
\* the next run starts.
C39_FetchClosesSession ==
    /\ stageLog # <<>> => ~sftpOpen
    /\ dpc = "d_recv" => ~sftpOpen
====
